---- MODULE Spec2Model ----
(***************************************************************************)
(* The conversation/session core of the chat client                        *)
(* (src/frontend/src/api.ts, component ChatInterface) as a state machine.  *)
(*                                                                         *)
(* React state (useState) is the state; every handler is run up to its     *)
(* next `await` as one atomic step and every continuation after an `await` *)
(* as another one (single-threaded event loop).  A handler reads the plain *)
(* state variables (chats, currentChatId, ...) from the closure of the     *)
(* render in which it was invoked, so a continuation works on the values   *)
(* CAPTURED at invocation; only functional updates (setMessages(prev =>    *)
(* ...)) see the current value.  The captured values are kept in the       *)
(* records of the pending operations.                                      *)
(*                                                                         *)
(* Texts are sequences of one-character tokens so that trim() can be       *)
(* computed.  created_at of a session is never read by the client and is   *)
(* left out.  The remote service is a black box: a request for a session   *)
(* the service does not hold fails, every request may fail.  The service   *)
(* handles a request at some moment between its issue and the delivery of  *)
(* its response (the Serve steps): the response carries what the service   *)
(* held at that moment, and is delivered whatever has happened since.  A   *)
(* call can come back with a failure before or after the service handled   *)
(* it; what the service did stays done.                                    *)
(*                                                                         *)
(* The pages: "/" shows ChatInterface (behind ProtectedRoute), "/login"    *)
(* the Login page, "/register" the Register page.  navigate() and a link   *)
(* unmount the page on screen and mount another one: the calls of the      *)
(* unmounted page stay in flight (orphans).  Their responses still pass    *)
(* the response interceptor and their continuations still run: a state     *)
(* setter of a component that is gone does nothing, but localStorage,      *)
(* navigate() and further API calls work as ever, and so does the service. *)
(* Assigning window.location.href only asks for a page load (href): the    *)
(* application goes on until the browser replaces the document (PageLoad), *)
(* and then every component state and every call in flight is gone.        *)
(*                                                                         *)
(* ProfileModal is modelled by its being open and its getProfile calls in  *)
(* flight; its facts and loading flag, the login toast (loginSuccess,      *)
(* showSuccessToast), userData and the sidebar toggle are left out.        *)
(***************************************************************************)
EXTENDS Integers, Sequences, FiniteSets, Bags, TLC

\* ------------------------------------------------------------------ bounds
MaxActs == 2     \* actions of the user that issue a remote call

\* --------------------------------------------------------------- constants
NoChat == "null"                       \* null: no id
Ids == {"s1", "s2", "s3"}              \* ids the service can hand out
InitialServerChats ==                  \* what the service holds at start
    { <<>>,
      << [id |-> "s1", title |-> <<"A">>], [id |-> "s2", title |-> <<"B">>] >> }

DefaultTitle == <<"New Chat">>         \* createChat(title = "New Chat")
NewTitles == { <<>>, <<"T">> }         \* data.title: absent/empty or a title
Texts ==                               \* what the user can type
    { <<" ">>, <<"\r", "\\u00a0">>, <<"h", " ">> }
ReplyText == <<"o", "k">>              \* data.response
ErrorText == <<"Error: Could not reach the AI companion.">>
Unauthorized == 401                    \* error.response?.status === 401
ErrorStatuses == {Unauthorized, 500}   \* the statuses a failed call can carry
LoginDetails == { <<>>, <<"Incorrect username or password">> }
NoHref == "none"                       \* no page load asked for

\* what String.prototype.trim strips: WhiteSpace and LineTerminator of
\* ECMAScript.  A character without a TLA+ escape is written as the token
\* \uXXXX of its code point.
Whitespace ==
    { " ", "\t", "\n", "\f", "\r", "\\u000b", "\\u00a0", "\\ufeff",
      "\\u1680", "\\u2000", "\\u2001", "\\u2002", "\\u2003", "\\u2004",
      "\\u2005", "\\u2006", "\\u2007", "\\u2008", "\\u2009", "\\u200a",
      "\\u2028", "\\u2029", "\\u202f", "\\u205f", "\\u3000" }

NoSession == [id |-> NoChat, title |-> <<>>]

VARIABLES
    input,          \* useState('')
    messages,       \* useState<Message[]>([])           the ConversationView
    chats,          \* useState<ChatSession[]>([])       the Session Registry
    currentChatId,  \* useState<string | null>(null)     the active session id
    loading,        \* useState(false)
    deleteId,       \* useState<string | null>(null)
    initPc,         \* position of init(): "getMe", "getChats", "done", "failed";
                    \* "off" while ChatInterface is not mounted
    send,           \* the handleSend in flight (or the last one), see IdleSend
    fetches,        \* getHistory calls in flight: their ids, in issue order
    deletes,        \* deleteChat calls in flight: sequence of [id, chats, cur]
    serverChats,    \* sessions the remote service holds, most recent first
    retired,        \* ids of the sessions the service has deleted
    deleted,        \* ids whose remote delete has succeeded and was answered
    latestSel,      \* the id of the most recent selectChat call
    latestFetch,    \* its getHistory: "none", "pending" (then the last of
                    \* fetches), "loaded" or "failed"
    budget,         \* actions that issue a remote call made so far
    provisioned,    \* ids this ChatInterface registered through line 430
    profile,        \* ProfileModal: [open, calls] (getProfile calls in flight)
    served,         \* the responses the service has computed for the calls
                    \* in flight, see NothingServed
    token,          \* localStorage holds 'token'
    location,       \* window.location.pathname
    href,           \* the page load asked for by window.location.href = ...
    login,          \* the Login page: [pc, error]
    register,       \* the Register page: [pc, error]
    orphans,        \* calls in flight of pages that were unmounted (a bag)
    last            \* the step just taken: [op, id, ...]

vars == << input, messages, chats, currentChatId, loading, deleteId, initPc,
           send, fetches, deletes, serverChats, retired, deleted, latestSel,
           latestFetch, budget, provisioned, profile, served, token, location,
           href, login, register, orphans, last >>

auth == << token, location, href, login, register, orphans >>

\* ---------------------------------------------------------------- helpers
RECURSIVE TrimLeft(_)
TrimLeft(s) ==
    IF s = <<>> THEN <<>>
    ELSE IF Head(s) \in Whitespace THEN TrimLeft(Tail(s)) ELSE s

RECURSIVE TrimRight(_)
TrimRight(s) ==
    IF s = <<>> THEN <<>>
    ELSE IF s[Len(s)] \in Whitespace THEN TrimRight(SubSeq(s, 1, Len(s) - 1))
    ELSE s

\* String.prototype.trim
Trim(s) == TrimRight(TrimLeft(s))

\* chats.filter(c => c.id !== id)
RECURSIVE FilterOut(_, _)
FilterOut(cs, id) ==
    IF cs = <<>> THEN <<>>
    ELSE IF Head(cs).id # id THEN <<Head(cs)>> \o FilterOut(Tail(cs), id)
    ELSE FilterOut(Tail(cs), id)

IdsOf(cs) == { cs[i].id : i \in DOMAIN cs }

\* what GET /chats/{id}/history can return for session id
HistoriesOf(id) ==
    { <<>>,
      << [role |-> "user",  parts |-> <<<<"q", id>>, <<"x">>>>],
         [role |-> "model", parts |-> <<<<"a", id>>>>] >> }

\* a mutant that takes the last part of every item
MapHistoryLastPart(history) ==
    [i \in DOMAIN history |->
        [role |-> history[i].role,
         content |-> history[i].parts[Len(history[i].parts)]]]

\* history.map(h => ({ role: h.role, content: h.parts[0] }))
MapHistory(history) ==
    [i \in DOMAIN history |->
        [role |-> history[i].role, content |-> history[i].parts[1]]]

UserMessage(text) == [role |-> "user", content |-> text]
ModelMessage(text) == [role |-> "model", content |-> text]

\* the service sets a title on a session
RECURSIVE SetTitle(_, _, _)
SetTitle(cs, id, title) ==
    IF cs = <<>> THEN <<>>
    ELSE <<IF Head(cs).id = id THEN [Head(cs) EXCEPT !.title = title] ELSE Head(cs)>>
         \o SetTitle(Tail(cs), id, title)

\* no handleSend in flight.  While one is: the captured userMsg,
\* currentChatId (cur) and chats, the created session, the id the pending
\* call is addressed to, and the create-session and send-message calls
\* issued so far
IdleSend ==
    [pc |-> "idle", userMsg |-> <<>>, cur |-> NoChat, chats |-> <<>>,
     newChat |-> NoSession, target |-> NoChat, creates |-> 0, sends |-> 0]

Step(op, id) == [op |-> op, id |-> id]

\* a step no property looks back at
Quiet == Step("ui", NoChat)

\* the end of a handleSend: what it was addressed to and what it issued
SendStep(op, s) ==
    [op |-> op, id |-> s.target, cur |-> s.cur, newId |-> s.newChat.id,
     msg |-> s.userMsg, creates |-> s.creates, sends |-> s.sends]

\* the end of a successful send: also the title of the response and the
\* list the handler captured
SendOkStep(s, title) ==
    [op |-> "sendOk", id |-> s.target, cur |-> s.cur, newId |-> s.newChat.id,
     msg |-> s.userMsg, creates |-> s.creates, sends |-> s.sends,
     title |-> title, chats |-> s.chats]

\* the end of a deleteChat call: the id and the captured currentChatId
DeleteStep(op, d) == [op |-> op, id |-> d.id, cur |-> d.cur]

\* ids the service has ever handed out
UsedIds == IdsOf(serverChats) \cup retired

RemoveAt(s, i) == SubSeq(s, 1, i - 1) \o SubSeq(s, i + 1, Len(s))

\* the getHistory call at position i is not the one of the latest selectChat
Superseded(i) == ~(latestFetch = "pending" /\ i = Len(fetches))

\* a page with no call in flight and no error shown
IdlePage == [pc |-> "idle", error |-> <<>>]

\* ChatInterface is on the screen
Mounted == location = "/"

\* a call in flight as an orphan keeps what its continuation reads
OrphanCall(kind, id) ==
    [kind |-> kind, id |-> id, chats |-> <<>>, cur |-> NoChat,
     served |-> FALSE]

\* a call the service has handled already
ServedCall(kind, id, done) == [OrphanCall(kind, id) EXCEPT !.served = done]

\* no call in flight has been handled.  init and send: <<>> or the one
\* response waiting (the list of getChats; the session of createChat or the
\* title of sendMessage); fetches and deletes: whether the call at the same
\* position of fetches and deletes has been handled
NothingServed ==
    [init |-> <<>>, send |-> <<>>, fetches |-> <<>>, deletes |-> <<>>]

NoProfile == [open |-> FALSE, calls |-> 0]

\* the init() call in flight
InitCalls ==
    IF initPc \in {"getMe", "getChats"}
    THEN << ServedCall(initPc, NoChat, served.init # <<>>) >> ELSE <<>>

\* the other calls of ChatInterface and its ProfileModal in flight
OtherChatCalls ==
    (IF send.pc = "creating"
     THEN << IF served.send = <<>> THEN OrphanCall("create", NoChat)
             ELSE ServedCall("create", served.send[1].id, TRUE) >>
     ELSE IF send.pc = "sending"
     THEN << ServedCall("send", send.target, served.send # <<>>) >>
     ELSE <<>>)
    \o [i \in DOMAIN fetches |->
          ServedCall("history", fetches[i], served.fetches[i])]
    \o [i \in DOMAIN deletes |->
          [kind |-> "delete", id |-> deletes[i].id,
           chats |-> deletes[i].chats, cur |-> deletes[i].cur,
           served |-> served.deletes[i]]]
    \o [i \in 1..profile.calls |-> OrphanCall("profile", NoChat)]

ChatCalls == InitCalls \o OtherChatCalls

\* the calls in flight of the page on screen
PageCalls ==
    IF location = "/" THEN ChatCalls
    ELSE IF location = "/login"
    THEN (IF login.pc = "pending"
          THEN << OrphanCall("login", NoChat) >> ELSE <<>>)
    ELSE (IF register.pc = "pending"
          THEN << OrphanCall("register", NoChat) >> ELSE <<>>)

\* the number of calls of ChatInterface in flight
InFlight == Len(ChatCalls)

\* the calls of a list as a bag
RECURSIVE BagOf(_)
BagOf(calls) ==
    IF calls = <<>> THEN EmptyBag
    ELSE SetToBag({Head(calls)}) (+) BagOf(Tail(calls))

\* the orphans without the call o, which has returned
Returned(o) == orphans (-) SetToBag({o})

\* ------------------------------------------------------------------- Init
\* the application is opened with a stored token on "/" (ChatInterface is
\* constructed and init() has issued getMe), or on "/login", with a stored
\* token or without one ("/" without a token is sent on to "/login" by
\* ProtectedRoute)
Init ==
    /\ input = <<>>
    /\ messages = <<>>
    /\ chats = <<>>
    /\ currentChatId = NoChat
    /\ loading = FALSE
    /\ deleteId = NoChat
    /\ \/ token = TRUE /\ location = "/" /\ initPc = "getMe"
       \/ token \in BOOLEAN /\ location = "/login" /\ initPc = "off"
    /\ send = IdleSend
    /\ fetches = <<>>
    /\ deletes = <<>>
    /\ serverChats \in InitialServerChats
    /\ retired = {}
    /\ deleted = {}
    /\ latestSel = NoChat
    /\ latestFetch = "none"
    /\ budget = 0
    /\ provisioned = {}
    /\ profile = NoProfile
    /\ served = NothingServed
    /\ href = NoHref
    /\ login = IdlePage
    /\ register = IdlePage
    /\ orphans = EmptyBag
    /\ last = Step("init", NoChat)

\* ------------------------------------------------------- code fragments
\* a create-session call on every send
NeedsCreateAlways(cur) == TRUE

\* line 417: if (!currentChatId)
NeedsCreate(cur) == cur = NoChat

\* line 423: sendMessage(newChat.id, userMsg) is addressed to the new id
LazyTarget(newChat, cur) == newChat.id

\* the created id is not made the active one
ActiveAfterCreateKept(newChat, active) == active

\* line 420: setCurrentChatId(newChat.id)
ActiveAfterCreate(newChat, active) == newChat.id

\* a mutant that appends nothing
AppendMessageNone(prev, m) == prev

\* lines 413, 424, 433, 437: setMessages(prev => [...prev, m])
AppendMessage(prev, m) == Append(prev, m)

\* a mutant in which the input stays enabled during a send
DisabledNever(l) == FALSE

\* lines 654, 659: disabled={loading} on the textarea and the send button
Disabled(l) == l

\* a mutant that tests the input without trimming it
SendIsNoopUntrimmed(text) == text = <<>>

\* line 409: if (!input.trim()) return
SendIsNoop(text) == Trim(text) = <<>>

\* a mutant that puts the created session at the end of the list
ChatsAfterLazySendAtTail(newChat, title, captured) ==
    captured
    \o << IF title # <<>> THEN [newChat EXCEPT !.title = title] ELSE newChat >>

\* a mutant that registers the retitled session beside the created one
ChatsAfterLazySendBoth(newChat, title, captured) ==
    (IF title # <<>> THEN << [newChat EXCEPT !.title = title], newChat >>
                     ELSE << newChat >>)
    \o captured

\* lines 427-430: title update and setChats([newChat, ...chats])
ChatsAfterLazySend(newChat, title, captured) ==
    << IF title # <<>> THEN [newChat EXCEPT !.title = title] ELSE newChat >>
    \o captured

\* a mutant that clears the flag only when a send-message call returned
LoadingAfterSendStuck(pc) == pc = "creating"

\* line 439: finally { setLoading(false) }, wherever the try block ended
LoadingAfterSend(pc) == FALSE

\* a mutant that removes the session from the list although the call failed
ChatsAfterDeleteFailFiltered(current, d) == FilterOut(d.chats, d.id)

\* lines 395-397: the catch block logs to the console and writes no state
ChatsAfterDeleteFail(current, d) == current

\* every delete moves the active session
DeletedWasActiveAlways(d) == TRUE

\* line 388: if (currentChatId === id), on the captured currentChatId
DeletedWasActive(d) == d.cur = d.id

\* lines 389-393: the successor of a deleted active session
HasSuccessorOffByOne(updated) == Len(updated) > 1
HasSuccessor(updated) == Len(updated) > 0
Successor(updated) == updated[1].id

\* ------------------------------------------- response interceptor (16-30)
\* a mutant that leaves the token in localStorage
InterceptKeepsToken(status, path, tok) ==
    IF status = Unauthorized /\ (path # "/login" /\ path # "/register")
    THEN [token |-> tok, href |-> "/login", rejected |-> TRUE]
    ELSE [token |-> tok, href |-> NoHref, rejected |-> TRUE]

\* a mutant that takes every failed response for an authorization failure
InterceptAnyError(status, path, tok) ==
    IF path # "/login" /\ path # "/register"
    THEN [token |-> FALSE, href |-> "/login", rejected |-> TRUE]
    ELSE [token |-> tok, href |-> NoHref, rejected |-> TRUE]

\* the error handler of axios.interceptors.response: what it leaves in
\* localStorage and window.location, and that it rejects to the caller
Intercept(status, path, tok) ==
    IF status = Unauthorized /\ (path # "/login" /\ path # "/register")
    THEN [token |-> FALSE, href |-> "/login", rejected |-> TRUE]
    ELSE [token |-> tok, href |-> NoHref, rejected |-> TRUE]

\* a failed response passes the interceptor: what it leaves in localStorage
\* and whether it asks for a page load
TokenAfterFailure(status) == Intercept(status, location, token).token

HrefAfterFailure(status) ==
    LET r == Intercept(status, location, token) IN
    IF r.href = NoHref THEN href ELSE r.href

AuthAfterFailure(status) ==
    /\ token' = TokenAfterFailure(status)
    /\ href' = HrefAfterFailure(status)

\* what the step of a failed response records
Rejection(status) ==
    [at |-> location, tok |-> token, status |-> status,
     rejected |-> Intercept(status, location, token).rejected]

\* no ChatInterface: its state is gone (pc "off"), or a new one has been
\* constructed and its init() has issued getMe (pc "getMe")
FreshChat(pc) ==
    /\ input' = <<>>
    /\ messages' = <<>>
    /\ chats' = <<>>
    /\ currentChatId' = NoChat
    /\ loading' = FALSE
    /\ deleteId' = NoChat
    /\ initPc' = pc
    /\ send' = IdleSend
    /\ fetches' = <<>>
    /\ deletes' = <<>>
    /\ latestSel' = NoChat
    /\ latestFetch' = "none"
    /\ provisioned' = {}
    /\ profile' = NoProfile
    /\ served' = NothingServed

ChatUnchanged ==
    UNCHANGED << input, messages, chats, currentChatId, loading, deleteId,
                 initPc, send, fetches, deletes, latestSel, latestFetch,
                 provisioned, profile, served >>

\* <Navigate to="/login"> of ProtectedRoute (lines 285-291)
Route(to, tok) == IF to = "/" /\ ~tok THEN "/login" ELSE to

\* navigate(to), or a link: the page on screen is unmounted, its calls
\* still in flight (pending) join the orphans (base), and the page of the
\* new location is mounted; a new ChatInterface issues getMe.  Nothing
\* happens when the location is the same.
Navigate(to, base, pending) ==
    IF to = location
    THEN /\ location' = location
         /\ orphans' = base
         /\ ChatUnchanged
         /\ UNCHANGED << login, register >>
    ELSE /\ location' = to
         /\ orphans' = base (+) BagOf(pending)
         /\ FreshChat(IF to = "/" THEN "getMe" ELSE "off")
         /\ login' = IdlePage
         /\ register' = IdlePage

\* ------------------------------------------------------------ init (327-349)
InitGetMeOk ==
    /\ initPc = "getMe"
    /\ initPc' = "getChats"
    /\ UNCHANGED auth
    /\ UNCHANGED << provisioned, profile, served >>
    /\ last' = Quiet
    /\ UNCHANGED << input, messages, chats, currentChatId, loading, deleteId,
                    send, fetches, deletes, serverChats, retired, deleted, latestSel,
                    latestFetch, budget >>

\* the service handles GET /chats (getChats, lines 79-82)
ServeGetChats ==
    /\ initPc = "getChats"
    /\ served.init = <<>>
    /\ served' = [served EXCEPT !.init = << serverChats >>]
    /\ UNCHANGED auth
    /\ last' = Quiet
    /\ UNCHANGED << input, messages, chats, currentChatId, loading, deleteId,
                    initPc, send, fetches, deletes, serverChats, retired,
                    deleted, latestSel, latestFetch, budget, provisioned,
                    profile >>

\* getChats resolves with the list the response carries: lines 333-337
InitGetChatsOk ==
    /\ initPc = "getChats"
    /\ served.init # <<>>
    /\ initPc' = "done"
    /\ chats' = served.init[1]
    /\ served' = [served EXCEPT !.init = <<>>]
    /\ currentChatId' = NoChat          \* handleNewChat()
    /\ messages' = <<>>
    /\ UNCHANGED auth
    /\ UNCHANGED << provisioned, profile >>
    /\ last' = Step("getChatsOk", NoChat)
    /\ UNCHANGED << input, loading, deleteId, send, fetches, deletes,
                    serverChats, retired, deleted, latestSel, latestFetch, budget >>

\* getMe or getChats rejects: lines 339-346; only a 401 is acted upon, with
\* the token removed (once more) and navigate('/login')
InitFail(status) ==
    /\ initPc \in {"getMe", "getChats"}
    /\ href' = HrefAfterFailure(status)
    /\ IF status = Unauthorized
       THEN /\ token' = FALSE
            /\ Navigate("/login", orphans, OtherChatCalls)
       ELSE /\ token' = TokenAfterFailure(status)
            /\ initPc' = "failed"
            /\ served' = [served EXCEPT !.init = <<>>]
            /\ UNCHANGED << location, login, register, orphans, input,
                            messages, chats, currentChatId, loading,
                            deleteId, send, fetches, deletes, latestSel,
                            latestFetch, provisioned, profile >>
    /\ last' = Step("initFail", NoChat) @@ Rejection(status)
    /\ UNCHANGED << serverChats, retired, deleted, budget >>

\* ------------------------------------------- handleInputResize (458-462)
\* the textarea is disabled while loading (line 654)
SetInput(t) ==
    /\ Mounted
    /\ ~Disabled(loading)
    /\ budget < MaxActs
    /\ input # t
    /\ input' = t
    /\ UNCHANGED auth
    /\ UNCHANGED << provisioned, profile, served >>
    /\ last' = Quiet
    /\ UNCHANGED << messages, chats, currentChatId, loading, deleteId, initPc,
                    send, fetches, deletes, serverChats, retired, deleted, latestSel,
                    latestFetch, budget >>

\* ------------------------------------------------- handleSend (408-441)
\* reachable through the button and the Enter key, both disabled while
\* loading (lines 654, 659); the Enter key also calls it with a blank input
HandleSend ==
    /\ Mounted
    /\ ~Disabled(loading)
    /\ IF SendIsNoop(input)
       THEN UNCHANGED << input, messages, loading, send, budget >>
       ELSE /\ budget < MaxActs
            /\ budget' = budget + 1
            /\ input' = <<>>
            /\ messages' = AppendMessage(messages, UserMessage(input))
            /\ loading' = TRUE
            /\ IF NeedsCreate(currentChatId)
               THEN send' = [pc |-> "creating", userMsg |-> input,
                             cur |-> currentChatId, chats |-> chats,
                             newChat |-> NoSession, target |-> NoChat,
                             creates |-> 1, sends |-> 0]
               ELSE send' = [pc |-> "sending", userMsg |-> input,
                             cur |-> currentChatId, chats |-> chats,
                             newChat |-> NoSession, target |-> currentChatId,
                             creates |-> 0, sends |-> 1]
    /\ UNCHANGED auth
    /\ UNCHANGED << provisioned, profile, served >>
    /\ last' = [op |-> "handleSend", id |-> currentChatId,
                blank |-> SendIsNoop(input)]
    /\ UNCHANGED << chats, currentChatId, deleteId, initPc, fetches, deletes,
                    serverChats, retired, deleted, latestSel, latestFetch >>

\* the service handles POST /chats (createChat, lines 74-77)
ServeCreate(id) ==
    /\ send.pc = "creating"
    /\ served.send = <<>>
    /\ id \in Ids \ UsedIds
    /\ LET newChat == [id |-> id, title |-> DefaultTitle] IN
       /\ serverChats' = <<newChat>> \o serverChats
       /\ served' = [served EXCEPT !.send = << newChat >>]
    /\ UNCHANGED auth
    /\ last' = Quiet
    /\ UNCHANGED << input, messages, chats, currentChatId, loading, deleteId,
                    initPc, send, fetches, deletes, retired, deleted,
                    latestSel, latestFetch, budget, provisioned, profile >>

\* createChat() resolves: lines 419-423
CreateOk ==
    /\ send.pc = "creating"
    /\ served.send # <<>>
    /\ LET newChat == served.send[1] IN
       /\ currentChatId' = ActiveAfterCreate(newChat, currentChatId)
       /\ send' = [send EXCEPT !.pc = "sending", !.newChat = newChat,
                               !.target = LazyTarget(newChat, send.cur),
                               !.sends = @ + 1]
       /\ last' = Step("createOk", newChat.id)
    /\ served' = [served EXCEPT !.send = <<>>]
    /\ UNCHANGED auth
    /\ UNCHANGED << provisioned, profile >>
    /\ UNCHANGED << input, messages, chats, loading, deleteId, initPc,
                    fetches, deletes, serverChats, retired, deleted,
                    latestSel, latestFetch, budget >>

\* createChat() rejects, whether or not the service created the session:
\* lines 435-440
CreateFail(status) ==
    /\ send.pc = "creating"
    /\ messages' = AppendMessage(messages, ModelMessage(ErrorText))
    /\ loading' = LoadingAfterSend(send.pc)
    /\ send' = IdleSend
    /\ served' = [served EXCEPT !.send = <<>>]
    /\ AuthAfterFailure(status)
    /\ UNCHANGED << location, login, register, orphans >>
    /\ UNCHANGED << provisioned, profile >>
    /\ last' = SendStep("createFail", send) @@ Rejection(status)
               @@ [late |-> served.send # <<>>]
    /\ UNCHANGED << input, chats, currentChatId, deleteId, initPc, fetches,
                    deletes, serverChats, retired, deleted, latestSel, latestFetch,
                    budget >>

\* the service handles POST /chats/{id}/message (sendMessage, lines 91-97)
ServeSend(title) ==
    /\ send.pc = "sending"
    /\ served.send = <<>>
    /\ send.target \in IdsOf(serverChats)
    /\ serverChats' = IF title # <<>>
                      THEN SetTitle(serverChats, send.target, title)
                      ELSE serverChats
    /\ served' = [served EXCEPT !.send = << title >>]
    /\ UNCHANGED auth
    /\ last' = Quiet
    /\ UNCHANGED << input, messages, chats, currentChatId, loading, deleteId,
                    initPc, send, fetches, deletes, retired, deleted,
                    latestSel, latestFetch, budget, provisioned, profile >>

\* sendMessage() resolves: lines 424-430 and 433, then finally
SendOk ==
    /\ send.pc = "sending"
    /\ served.send # <<>>
    /\ messages' = AppendMessage(messages, ModelMessage(ReplyText))
    /\ LET title == served.send[1] IN
       /\ IF NeedsCreate(send.cur)
          THEN chats' = ChatsAfterLazySend(send.newChat, title, send.chats)
          ELSE chats' = chats
       /\ last' = SendOkStep(send, title)
    /\ served' = [served EXCEPT !.send = <<>>]
    /\ loading' = LoadingAfterSend(send.pc)
    /\ send' = IdleSend
    /\ UNCHANGED auth
    /\ provisioned' = IF NeedsCreate(send.cur)
                       THEN provisioned \cup {send.newChat.id}
                       ELSE provisioned
    /\ UNCHANGED profile
    /\ UNCHANGED << input, currentChatId, deleteId, initPc, fetches, deletes,
                    serverChats, retired, deleted, latestSel, latestFetch,
                    budget >>

\* sendMessage() rejects, whether or not the service handled the message:
\* lines 435-440
SendFail(status) ==
    /\ send.pc = "sending"
    /\ messages' = AppendMessage(messages, ModelMessage(ErrorText))
    /\ loading' = LoadingAfterSend(send.pc)
    /\ send' = IdleSend
    /\ served' = [served EXCEPT !.send = <<>>]
    /\ AuthAfterFailure(status)
    /\ UNCHANGED << location, login, register, orphans >>
    /\ UNCHANGED << provisioned, profile >>
    /\ last' = SendStep("sendFail", send) @@ Rejection(status)
               @@ [late |-> served.send # <<>>]
    /\ UNCHANGED << input, chats, currentChatId, deleteId, initPc, fetches,
                    deletes, serverChats, retired, deleted, latestSel, latestFetch,
                    budget >>

\* ------------------------------------------------- selectChat (351-366)
\* selectChat(id) up to the await, id non-null: lines 353-356
SelectChatEffect(id) ==
    /\ currentChatId' = id
    /\ messages' = <<>>
    /\ fetches' = Append(fetches, id)
    /\ latestSel' = id
    /\ latestFetch' = "pending"

\* a mutant that leaves the view as it is
NewChatEffectKeepsView ==
    /\ currentChatId' = NoChat
    /\ messages' = messages

\* handleNewChat (368-371)
NewChatEffect ==
    /\ currentChatId' = NoChat
    /\ messages' = <<>>

\* a mutant without the early return
SelectIsNoopNever(id) == FALSE

\* line 352: if (!id) return
SelectIsNoop(id) == id = NoChat

\* selectChat(id): a click on a session of the sidebar list (line 515), or
\* a call with no id
SelectChat(id) ==
    /\ Mounted
    /\ id \in IdsOf(chats) \cup {NoChat}
    /\ IF SelectIsNoop(id)
       THEN UNCHANGED << currentChatId, messages, fetches, latestSel,
                         latestFetch, budget, served >>
       ELSE /\ budget < MaxActs
            /\ budget' = budget + 1
            /\ SelectChatEffect(id)
            /\ served' = [served EXCEPT !.fetches = Append(@, FALSE)]
    /\ UNCHANGED auth
    /\ UNCHANGED << provisioned, profile >>
    /\ last' = [op |-> "selectChat", id |-> id, had |-> messages # <<>>]
    /\ UNCHANGED << input, chats, loading, deleteId, initPc, send, deletes,
                    serverChats, retired, deleted >>

\* fetch i is the one the step just taken issued, or the one it handed to
\* the service with nothing in between
DirectlyAfterSelect(i) ==
    /\ i = Len(fetches)
    /\ last.id = fetches[i]
    /\ \/ last.op = "selectChat"
       \/ last.op = "serveHistory" /\ last.direct

\* the service handles GET /chats/{id}/history (getHistory, lines 99-102)
ServeHistory(i) ==
    /\ i \in DOMAIN fetches
    /\ ~served.fetches[i]
    /\ fetches[i] \in IdsOf(serverChats)
    /\ served' = [served EXCEPT !.fetches[i] = TRUE]
    /\ UNCHANGED auth
    /\ last' = [op |-> "serveHistory", id |-> fetches[i],
                direct |-> DirectlyAfterSelect(i),
                had |-> DirectlyAfterSelect(i) /\ last.had]
    /\ UNCHANGED << input, messages, chats, currentChatId, loading, deleteId,
                    initPc, send, fetches, deletes, serverChats, retired,
                    deleted, latestSel, latestFetch, budget, provisioned,
                    profile >>

\* getHistory(id) resolves: lines 358-362
HistoryOk(i, history) ==
    /\ i \in DOMAIN fetches
    /\ served.fetches[i]
    /\ history \in HistoriesOf(fetches[i])
    /\ messages' = MapHistory(history)
    /\ fetches' = RemoveAt(fetches, i)
    /\ served' = [served EXCEPT !.fetches = RemoveAt(@, i)]
    /\ latestFetch' = IF Superseded(i) THEN latestFetch ELSE "loaded"
    /\ UNCHANGED auth
    /\ UNCHANGED << provisioned, profile >>
    /\ last' = [op |-> "historyOk", id |-> fetches[i],
                superseded |-> Superseded(i), history |-> history,
                direct |-> DirectlyAfterSelect(i),
                had |-> DirectlyAfterSelect(i) /\ last.had]
    /\ UNCHANGED << input, chats, currentChatId, loading, deleteId, initPc,
                    send, deletes, serverChats, retired, deleted, latestSel, budget >>

\* a mutant that empties the view when the fetch fails
ViewAfterHistoryFailCleared(prev) == <<>>

\* lines 363-365: the catch block logs to the console and writes no state
ViewAfterHistoryFail(prev) == prev

\* getHistory(id) rejects: lines 363-365
HistoryFail(i, status) ==
    /\ i \in DOMAIN fetches
    /\ messages' = ViewAfterHistoryFail(messages)
    /\ fetches' = RemoveAt(fetches, i)
    /\ served' = [served EXCEPT !.fetches = RemoveAt(@, i)]
    /\ latestFetch' = IF Superseded(i) THEN latestFetch ELSE "failed"
    /\ AuthAfterFailure(status)
    /\ UNCHANGED << location, login, register, orphans >>
    /\ UNCHANGED << provisioned, profile >>
    /\ last' = [op |-> "historyFail", id |-> fetches[i],
                direct |-> DirectlyAfterSelect(i),
                had |-> DirectlyAfterSelect(i) /\ last.had]
               @@ Rejection(status)
    /\ UNCHANGED << input, chats, currentChatId, loading, deleteId,
                    initPc, send, deletes, serverChats, retired, deleted, latestSel,
                    budget >>

\* the New Chat button (line 502)
HandleNewChat ==
    /\ Mounted
    /\ NewChatEffect
    /\ UNCHANGED auth
    /\ UNCHANGED << provisioned, profile, served >>
    /\ last' = [op |-> "newChat", id |-> currentChatId,
                had |-> messages # <<>>]
    /\ UNCHANGED << input, chats, loading, deleteId, initPc, send, fetches,
                    deletes, serverChats, retired, deleted, latestSel, latestFetch,
                    budget >>

\* ------------------------------------------------------ delete (373-398)
HandleDeleteClick(id) ==
    /\ Mounted
    /\ id \in IdsOf(chats)
    /\ budget < MaxActs
    /\ deleteId # id
    /\ deleteId' = id
    /\ UNCHANGED auth
    /\ UNCHANGED << provisioned, profile, served >>
    /\ last' = Quiet
    /\ UNCHANGED << input, messages, chats, currentChatId, loading, initPc,
                    send, fetches, deletes, serverChats, retired, deleted, latestSel,
                    latestFetch, budget >>

\* ConfirmationModal onClose (line 470)
CancelDelete ==
    /\ Mounted
    /\ deleteId # NoChat
    /\ deleteId' = NoChat
    /\ UNCHANGED auth
    /\ UNCHANGED << provisioned, profile, served >>
    /\ last' = Quiet
    /\ UNCHANGED << input, messages, chats, currentChatId, loading, initPc,
                    send, fetches, deletes, serverChats, retired, deleted, latestSel,
                    latestFetch, budget >>

\* confirmDeleteChat up to the await: lines 378-384
ConfirmDeleteChat ==
    /\ Mounted
    /\ deleteId # NoChat                                    \* line 379
    /\ budget < MaxActs
    /\ budget' = budget + 1
    /\ deletes' = Append(deletes, [id |-> deleteId, chats |-> chats,
                                   cur |-> currentChatId])
    /\ deleteId' = NoChat
    /\ served' = [served EXCEPT !.deletes = Append(@, FALSE)]
    /\ UNCHANGED auth
    /\ UNCHANGED << provisioned, profile >>
    /\ last' = Step("confirmDelete", deleteId)
    /\ UNCHANGED << input, messages, chats, currentChatId, loading, initPc,
                    send, fetches, serverChats, retired, deleted, latestSel,
                    latestFetch >>

\* the service handles DELETE /chats/{id} (deleteChat, lines 84-87)
ServeDelete(i) ==
    /\ i \in DOMAIN deletes
    /\ ~served.deletes[i]
    /\ deletes[i].id \in IdsOf(serverChats)
    /\ serverChats' = FilterOut(serverChats, deletes[i].id)
    /\ retired' = retired \cup {deletes[i].id}
    /\ served' = [served EXCEPT !.deletes[i] = TRUE]
    /\ UNCHANGED auth
    /\ last' = Quiet
    /\ UNCHANGED << input, messages, chats, currentChatId, loading, deleteId,
                    initPc, send, fetches, deletes, deleted, latestSel,
                    latestFetch, budget, provisioned, profile >>

\* deleteChat(id) resolves: lines 385-394
DeleteOk(i) ==
    /\ i \in DOMAIN deletes
    /\ served.deletes[i]
    /\ LET d == deletes[i]
           updated == FilterOut(d.chats, d.id)
           selects == DeletedWasActive(d) /\ HasSuccessor(updated)
       IN
       /\ deleted' = deleted \cup {d.id}
       /\ chats' = updated
       /\ IF DeletedWasActive(d)
          THEN IF HasSuccessor(updated)
               THEN SelectChatEffect(Successor(updated))
               ELSE /\ NewChatEffect
                    /\ UNCHANGED << fetches, latestSel, latestFetch >>
          ELSE UNCHANGED << currentChatId, messages, fetches, latestSel,
                            latestFetch >>
       /\ served' = [served EXCEPT
                        !.deletes = RemoveAt(@, i),
                        !.fetches = IF selects THEN Append(@, FALSE) ELSE @]
       /\ UNCHANGED auth
       /\ UNCHANGED << provisioned, profile >>
       /\ last' = DeleteStep("deleteOk", d)
    /\ deletes' = RemoveAt(deletes, i)
    /\ UNCHANGED << input, loading, deleteId, initPc, send, serverChats,
                    retired, budget >>

\* deleteChat(id) rejects, whether or not the service deleted the session:
\* lines 395-397
DeleteFail(i, status) ==
    /\ i \in DOMAIN deletes
    /\ deletes' = RemoveAt(deletes, i)
    /\ served' = [served EXCEPT !.deletes = RemoveAt(@, i)]
    /\ chats' = ChatsAfterDeleteFail(chats, deletes[i])
    /\ AuthAfterFailure(status)
    /\ UNCHANGED << location, login, register, orphans >>
    /\ UNCHANGED << provisioned, profile >>
    /\ last' = DeleteStep("deleteFail", deletes[i]) @@ Rejection(status)
               @@ [late |-> served.deletes[i]]
    /\ UNCHANGED << input, messages, currentChatId, loading, deleteId,
                    initPc, send, fetches, serverChats, retired, deleted, latestSel,
                    latestFetch, budget >>

\* ------------------------------------------- ProfileModal (145-163)
\* the profile button (line 537): the effect on isOpen calls loadProfile
OpenProfile ==
    /\ Mounted
    /\ ~profile.open
    /\ budget < MaxActs
    /\ budget' = budget + 1
    /\ profile' = [open |-> TRUE, calls |-> profile.calls + 1]
    /\ UNCHANGED auth
    /\ last' = Step("openProfile", NoChat)
    /\ UNCHANGED << input, messages, chats, currentChatId, loading, deleteId,
                    initPc, send, fetches, deletes, serverChats, retired,
                    deleted, latestSel, latestFetch, provisioned, served >>

\* onClose (line 478): the call stays in flight
CloseProfile ==
    /\ Mounted
    /\ profile.open
    /\ profile' = [profile EXCEPT !.open = FALSE]
    /\ UNCHANGED auth
    /\ last' = Quiet
    /\ UNCHANGED << input, messages, chats, currentChatId, loading, deleteId,
                    initPc, send, fetches, deletes, serverChats, retired,
                    deleted, latestSel, latestFetch, provisioned, served,
                    budget >>

\* getProfile() resolves: lines 158-159, 162-164
ProfileOk ==
    /\ profile.calls > 0
    /\ profile' = [profile EXCEPT !.calls = @ - 1]
    /\ UNCHANGED auth
    /\ last' = Quiet
    /\ UNCHANGED << input, messages, chats, currentChatId, loading, deleteId,
                    initPc, send, fetches, deletes, serverChats, retired,
                    deleted, latestSel, latestFetch, provisioned, served,
                    budget >>

\* getProfile() rejects: lines 160-164
ProfileFail(status) ==
    /\ profile.calls > 0
    /\ profile' = [profile EXCEPT !.calls = @ - 1]
    /\ AuthAfterFailure(status)
    /\ UNCHANGED << location, login, register, orphans >>
    /\ last' = Step("profileFail", NoChat) @@ Rejection(status)
    /\ UNCHANGED << input, messages, chats, currentChatId, loading, deleteId,
                    initPc, send, fetches, deletes, serverChats, retired,
                    deleted, latestSel, latestFetch, provisioned, served,
                    budget >>

\* ------------------------------------------------------- orphaned calls
\* The continuation of an orphaned call runs in a component that is gone:
\* its state setters do nothing, the rest of it does what it always does.

\* init(), getMe resolves: lines 330-333, getChats is issued
OrphanGetMeOk(o) ==
    /\ BagIn(o, orphans)
    /\ o.kind = "getMe"
    /\ orphans' = Returned(o) (+) SetToBag({OrphanCall("getChats", NoChat)})
    /\ last' = Quiet
    /\ ChatUnchanged
    /\ UNCHANGED << token, location, href, login, register, serverChats,
                    retired, deleted, budget >>

\* the service handles the GET /chats or GET /chats/{id}/history of an
\* orphaned call
OrphanServeRead(o) ==
    /\ BagIn(o, orphans)
    /\ o.kind \in {"getChats", "history"}
    /\ ~o.served
    /\ o.kind = "history" => o.id \in IdsOf(serverChats)
    /\ orphans' = Returned(o) (+) SetToBag({[o EXCEPT !.served = TRUE]})
    /\ last' = Quiet
    /\ ChatUnchanged
    /\ UNCHANGED << token, location, href, login, register, serverChats,
                    retired, deleted, budget >>

\* getChats (333-337), getHistory (357-362), getProfile (158-159) or the
\* call of the Register page resolves: state setters only
OrphanReadOk(o) ==
    /\ BagIn(o, orphans)
    /\ o.kind \in {"getChats", "history", "profile", "register"}
    /\ o.kind \in {"getChats", "history"} => o.served
    /\ orphans' = Returned(o)
    /\ last' = Quiet
    /\ ChatUnchanged
    /\ UNCHANGED << token, location, href, login, register, serverChats,
                    retired, deleted, budget >>

\* the service handles the POST /chats of an orphaned handleSend
OrphanServeCreate(o, id) ==
    /\ BagIn(o, orphans)
    /\ o.kind = "create"
    /\ ~o.served
    /\ id \in Ids \ UsedIds
    /\ serverChats' = << [id |-> id, title |-> DefaultTitle] >> \o serverChats
    /\ orphans' = Returned(o) (+) SetToBag({ServedCall("create", id, TRUE)})
    /\ last' = Quiet
    /\ ChatUnchanged
    /\ UNCHANGED << token, location, href, login, register, retired, deleted,
                    budget >>

\* handleSend, createChat() resolves: lines 419-423, sendMessage is issued
OrphanCreateOk(o) ==
    /\ BagIn(o, orphans)
    /\ o.kind = "create"
    /\ o.served
    /\ LET newChat == [id |-> o.id, title |-> DefaultTitle] IN
       orphans' = Returned(o)
                  (+) SetToBag({OrphanCall("send",
                                           LazyTarget(newChat, NoChat))})
    /\ last' = Step("orphanCreateOk", o.id)
    /\ ChatUnchanged
    /\ UNCHANGED << token, location, href, login, register, serverChats,
                    retired, deleted, budget >>

\* the service handles the POST /chats/{id}/message of an orphaned
\* handleSend
OrphanServeSend(o, title) ==
    /\ BagIn(o, orphans)
    /\ o.kind = "send"
    /\ ~o.served
    /\ o.id \in IdsOf(serverChats)
    /\ serverChats' = IF title # <<>>
                      THEN SetTitle(serverChats, o.id, title)
                      ELSE serverChats
    /\ orphans' = Returned(o) (+) SetToBag({[o EXCEPT !.served = TRUE]})
    /\ last' = Quiet
    /\ ChatUnchanged
    /\ UNCHANGED << token, location, href, login, register, retired, deleted,
                    budget >>

\* handleSend, sendMessage() resolves: lines 424-433, state setters only
OrphanSendOk(o) ==
    /\ BagIn(o, orphans)
    /\ o.kind = "send"
    /\ o.served
    /\ orphans' = Returned(o)
    /\ last' = Step("orphanSendOk", o.id)
    /\ ChatUnchanged
    /\ UNCHANGED << token, location, href, login, register, serverChats,
                    retired, deleted, budget >>

\* the service handles the DELETE /chats/{id} of an orphaned
\* confirmDeleteChat
OrphanServeDelete(o) ==
    /\ BagIn(o, orphans)
    /\ o.kind = "delete"
    /\ ~o.served
    /\ o.id \in IdsOf(serverChats)
    /\ serverChats' = FilterOut(serverChats, o.id)
    /\ retired' = retired \cup {o.id}
    /\ orphans' = Returned(o) (+) SetToBag({[o EXCEPT !.served = TRUE]})
    /\ last' = Quiet
    /\ ChatUnchanged
    /\ UNCHANGED << token, location, href, login, register, deleted, budget >>

\* confirmDeleteChat, deleteChat(id) resolves: lines 385-394; selectChat of
\* the successor issues getHistory
OrphanDeleteOk(o) ==
    /\ BagIn(o, orphans)
    /\ o.kind = "delete"
    /\ o.served
    /\ deleted' = deleted \cup {o.id}
    /\ LET updated == FilterOut(o.chats, o.id) IN
       orphans' = IF DeletedWasActive(o) /\ HasSuccessor(updated)
                  THEN Returned(o)
                       (+) SetToBag({OrphanCall("history", Successor(updated))})
                  ELSE Returned(o)
    /\ last' = Step("orphanDeleteOk", o.id)
    /\ ChatUnchanged
    /\ UNCHANGED << token, location, href, login, register, serverChats,
                    retired, budget >>

\* handleLogin, login() resolves: part_000 lines 20-22, the token is stored
\* and navigate('/')
OrphanLoginOk(o) ==
    /\ BagIn(o, orphans)
    /\ o.kind = "login"
    /\ token' = TRUE
    /\ Navigate(Route("/", TRUE), Returned(o), PageCalls)
    /\ last' = [op |-> "orphanLoginOk", id |-> NoChat, tok |-> token]
    /\ UNCHANGED << href, serverChats, retired, deleted, budget >>

\* an orphaned call rejects: the interceptor, then the catch block of its
\* caller; the one of init() (339-346) removes the token and navigates on
\* a 401, the others write component state only
OrphanFail(o, status) ==
    /\ BagIn(o, orphans)
    /\ href' = HrefAfterFailure(status)
    /\ IF o.kind \in {"getMe", "getChats"} /\ status = Unauthorized
       THEN /\ token' = FALSE
            /\ Navigate("/login", Returned(o), PageCalls)
       ELSE /\ token' = TokenAfterFailure(status)
            /\ orphans' = Returned(o)
            /\ ChatUnchanged
            /\ UNCHANGED << location, login, register >>
    /\ last' = [op |-> "orphanFail", id |-> o.id, kind |-> o.kind,
                late |-> o.served]
               @@ Rejection(status)
    /\ UNCHANGED << serverChats, retired, deleted, budget >>

\* ------------------------------------------------------------ page load
\* the browser carries out window.location.href = '/login' (line 25): the
\* document is replaced, with it every component and every call in flight
PageLoad ==
    /\ href # NoHref
    /\ location' = href
    /\ href' = NoHref
    /\ FreshChat("off")
    /\ login' = IdlePage
    /\ register' = IdlePage
    /\ orphans' = EmptyBag
    /\ last' = Step("pageLoad", NoChat)
    /\ UNCHANGED << token, serverChats, retired, deleted, budget >>

\* handleLogout (443-446)
HandleLogout ==
    /\ Mounted
    /\ token' = FALSE
    /\ Navigate("/login", orphans, ChatCalls)
    /\ last' = Step("logout", NoChat)
    /\ UNCHANGED << href, serverChats, retired, deleted, budget >>

\* ------------------------------------------------ Login (part_000, 13-28)
\* the submit button is disabled while loading (line 69)
HandleLogin ==
    /\ location = "/login"
    /\ login.pc = "idle"
    /\ budget < MaxActs
    /\ budget' = budget + 1
    /\ login' = [pc |-> "pending", error |-> <<>>]
    /\ last' = Step("handleLogin", NoChat)
    /\ ChatUnchanged
    /\ UNCHANGED << token, location, href, register, orphans, serverChats,
                    retired, deleted >>

\* login() resolves: lines 20-22 and 26; "/" mounts a new ChatInterface
LoginOk ==
    /\ location = "/login"
    /\ login.pc = "pending"
    /\ token' = TRUE
    /\ Navigate(Route("/", TRUE), orphans, <<>>)
    /\ last' = [op |-> "loginOk", id |-> NoChat, tok |-> token]
    /\ UNCHANGED << href, serverChats, retired, deleted, budget >>

\* err.response?.data?.detail || 'Login failed'  (line 24)
LoginErrorText(detail) ==
    IF detail # <<>> THEN detail ELSE <<"Login failed">>

\* login() rejects: the interceptor, then lines 23-27
LoginFail(status, detail) ==
    /\ location = "/login"
    /\ login.pc = "pending"
    /\ AuthAfterFailure(status)
    /\ login' = [pc |-> "idle", error |-> LoginErrorText(detail)]
    /\ last' = Step("loginFail", NoChat) @@ Rejection(status)
    /\ ChatUnchanged
    /\ UNCHANGED << location, register, orphans, serverChats, retired, deleted,
                    budget >>

\* the link of line 79; a login call in flight stays in flight
GoRegister ==
    /\ location = "/login"
    /\ Navigate("/register", orphans, PageCalls)
    /\ last' = Quiet
    /\ UNCHANGED << token, href, serverChats, retired, deleted, budget >>

\* ------------------------------------------------------------- Register
\* the Register page mirrors the Login page: it shows the failure of its
\* own call and stays where it is
GoLogin ==
    /\ location = "/register"
    /\ Navigate("/login", orphans, PageCalls)
    /\ last' = Quiet
    /\ UNCHANGED << token, href, serverChats, retired, deleted, budget >>

HandleRegister ==
    /\ location = "/register"
    /\ register.pc = "idle"
    /\ budget < MaxActs
    /\ budget' = budget + 1
    /\ register' = [pc |-> "pending", error |-> <<>>]
    /\ last' = Step("handleRegister", NoChat)
    /\ ChatUnchanged
    /\ UNCHANGED << token, location, href, login, orphans, serverChats,
                    retired, deleted >>

RegisterOk ==
    /\ location = "/register"
    /\ register.pc = "pending"
    /\ register' = IdlePage
    /\ last' = Step("registerOk", NoChat)
    /\ ChatUnchanged
    /\ UNCHANGED << token, location, href, login, orphans, serverChats,
                    retired, deleted, budget >>

RegisterFail(status) ==
    /\ location = "/register"
    /\ register.pc = "pending"
    /\ AuthAfterFailure(status)
    /\ register' = [pc |-> "idle", error |-> <<"displayable message">>]
    /\ last' = Step("registerFail", NoChat) @@ Rejection(status)
    /\ ChatUnchanged
    /\ UNCHANGED << location, login, orphans, serverChats, retired, deleted, budget >>

\* ------------------------------------------------------------------- Next
Next ==
    \/ InitGetMeOk
    \/ ServeGetChats
    \/ InitGetChatsOk
    \/ \E status \in ErrorStatuses : InitFail(status)
    \/ \E t \in Texts \cup {<<>>} : SetInput(t)
    \/ HandleSend
    \/ \E id \in Ids : ServeCreate(id)
    \/ CreateOk
    \/ \E status \in ErrorStatuses : CreateFail(status)
    \/ \E title \in NewTitles : ServeSend(title)
    \/ SendOk
    \/ \E status \in ErrorStatuses : SendFail(status)
    \/ \E id \in Ids \cup {NoChat} : SelectChat(id)
    \/ \E i \in DOMAIN fetches : ServeHistory(i)
    \/ \E i \in DOMAIN fetches : \E h \in HistoriesOf(fetches[i]) : HistoryOk(i, h)
    \/ \E i \in DOMAIN fetches : \E status \in ErrorStatuses :
           HistoryFail(i, status)
    \/ HandleNewChat
    \/ \E id \in Ids : HandleDeleteClick(id)
    \/ CancelDelete
    \/ ConfirmDeleteChat
    \/ \E i \in DOMAIN deletes : ServeDelete(i)
    \/ \E i \in DOMAIN deletes : DeleteOk(i)
    \/ \E i \in DOMAIN deletes : \E status \in ErrorStatuses :
           DeleteFail(i, status)
    \/ OpenProfile
    \/ CloseProfile
    \/ ProfileOk
    \/ \E status \in ErrorStatuses : ProfileFail(status)
    \/ \E o \in BagToSet(orphans) : OrphanGetMeOk(o)
    \/ \E o \in BagToSet(orphans) : OrphanServeRead(o)
    \/ \E o \in BagToSet(orphans) : OrphanReadOk(o)
    \/ \E o \in BagToSet(orphans) : \E id \in Ids : OrphanServeCreate(o, id)
    \/ \E o \in BagToSet(orphans) : OrphanCreateOk(o)
    \/ \E o \in BagToSet(orphans) : \E title \in NewTitles :
           OrphanServeSend(o, title)
    \/ \E o \in BagToSet(orphans) : OrphanSendOk(o)
    \/ \E o \in BagToSet(orphans) : OrphanServeDelete(o)
    \/ \E o \in BagToSet(orphans) : OrphanDeleteOk(o)
    \/ \E o \in BagToSet(orphans) : OrphanLoginOk(o)
    \/ \E o \in BagToSet(orphans) : \E status \in ErrorStatuses :
           OrphanFail(o, status)
    \/ PageLoad
    \/ HandleLogout
    \/ HandleLogin
    \/ LoginOk
    \/ \E status \in ErrorStatuses : \E detail \in LoginDetails :
           LoginFail(status, detail)
    \/ GoRegister
    \/ GoLogin
    \/ HandleRegister
    \/ RegisterOk
    \/ \E status \in ErrorStatuses : RegisterFail(status)

Spec == Init /\ [][Next]_vars

\* every remote call of a send eventually returns, with success or failure
SendReturns ==
    \/ CreateOk
    \/ \E status \in ErrorStatuses : CreateFail(status)
    \/ SendOk
    \/ \E status \in ErrorStatuses : SendFail(status)

LiveSpec == Spec /\ WF_vars(SendReturns)

TypeOK ==
    /\ currentChatId \in Ids \cup {NoChat}
    /\ loading \in BOOLEAN
    /\ deleteId \in Ids \cup {NoChat}
    /\ initPc \in {"off", "getMe", "getChats", "done", "failed"}
    /\ token \in BOOLEAN
    /\ location \in {"/", "/login", "/register"}
    /\ IsABag(orphans)
    /\ retired \subseteq Ids
    /\ deleted \subseteq retired
    /\ Len(served.fetches) = Len(fetches)
    /\ Len(served.deletes) = Len(deletes)
    /\ Len(served.init) <= 1 /\ Len(served.send) <= 1
    /\ href \in {NoHref, "/login"}
    /\ profile.open \in BOOLEAN
    /\ profile.calls \in 0..MaxActs
    /\ provisioned \subseteq Ids
    /\ send.pc \in {"idle", "creating", "sending"}

\* ------------------------------------------------------------ properties
SendEnds == {"sendOk", "sendFail", "createFail"}
LastMessage == messages[Len(messages)]

\* C1: a reply or synthetic error message that arrives when the active
\* session id is no longer the id the send was issued for is not appended to
\* the ConversationView.
C1_StaleResponseDiscarded ==
    [][ (last'.op \in SendEnds /\ last'.id # currentChatId)
            => messages' = messages ]_vars

\* C2: selectChat(A), then selectChat(B) before A's history has returned:
\* once both fetches have completed (B's loaded, B still the active id) the
\* ConversationView holds B's history, whichever fetch completed last.
C2_LastSelectionWins ==
    ( /\ last.op = "historyOk"
      /\ fetches = <<>>
      /\ latestFetch = "loaded"
      /\ currentChatId = latestSel )
    => messages \in { MapHistory(h) : h \in HistoriesOf(latestSel) }

\* C3: a handleSend invoked with no active session issues exactly one
\* create-session call, then, only after it has returned an id, exactly one
\* send-message call addressed to that id, and that id becomes the active
\* session id.
C3_LazyProvisioning ==
    /\ send.pc = "creating" => send.creates = 1 /\ send.sends = 0
    /\ last.op = "createOk"
         => /\ currentChatId = last.id
            /\ send.target = last.id
            /\ send.creates = 1 /\ send.sends = 1
    /\ (send.pc = "sending" /\ send.cur = NoChat)
         => /\ send.creates = 1 /\ send.sends = 1
            /\ send.newChat.id # NoChat
            /\ send.target = send.newChat.id
    /\ (last.op \in {"sendOk", "sendFail"} /\ last.cur = NoChat)
         => last.creates = 1 /\ last.sends = 1 /\ last.id = last.newId

C3_Witness ==
    /\ last.op = "sendOk"
    /\ last.cur = NoChat
    /\ last.creates = 1 /\ last.sends = 1
    /\ currentChatId = last.id

\* C4: a handleSend invoked while a session is active issues no
\* create-session call and exactly one send-message call, addressed to that
\* active id.
C4_NoCreateWhenActive ==
    /\ (last.op = "handleSend" /\ ~last.blank /\ last.id # NoChat)
         => /\ send.pc = "sending"
            /\ send.creates = 0 /\ send.sends = 1
            /\ send.target = last.id
    /\ (send.pc # "idle" /\ send.cur # NoChat)
         => /\ send.pc = "sending"
            /\ send.creates = 0 /\ send.sends = 1
            /\ send.target = send.cur
    /\ (last.op \in SendEnds /\ last.cur # NoChat)
         => last.creates = 0 /\ last.sends = 1 /\ last.id = last.cur

C4_Witness ==
    /\ last.op = "sendOk"
    /\ last.cur # NoChat
    /\ last.id = last.cur
    /\ last.creates = 0

\* C5: after every send that completes successfully the ConversationView
\* contains the user's message immediately followed by the assistant's reply
\* as a model-role message.
C5_UserThenReply ==
    last.op = "sendOk"
    => /\ Len(messages) >= 2
       /\ messages[Len(messages) - 1] = UserMessage(last.msg)
       /\ LastMessage = ModelMessage(ReplyText)

\* C6: after a send fails the user's message is still in the
\* ConversationView, exactly one synthetic model-role error message has been
\* appended after it, and the Session Registry is as it was.
C6_FailedSendKeepsUserMessage ==
    [][ last'.op \in {"sendFail", "createFail"}
            => /\ \E i \in 1 .. Len(messages') - 1 :
                     /\ messages'[i] = UserMessage(last'.msg)
                     /\ \A j \in i + 1 .. Len(messages') - 1 :
                            messages'[j] # ModelMessage(ErrorText)
               /\ messages'[Len(messages')] = ModelMessage(ErrorText)
               /\ chats' = chats ]_vars

\* C7: no active session, create-session succeeds and the send-message that
\* follows fails: the created session is in the Session Registry afterwards.
C7_CreatedSessionRegistered ==
    (last.op = "sendFail" /\ last.cur = NoChat)
    => last.newId \in IdsOf(chats)

\* C8: the active session id never is the id of a session whose remote
\* delete has succeeded.
C8_ActiveNeverDeleted ==
    currentChatId \notin deleted

\* C9: a successful remote delete of the session that was active when the
\* delete was confirmed makes the first session of the remaining registry
\* list the active one; with nothing remaining there is no active session
\* and the ConversationView is empty.
C9_DeleteActiveSelectsFirst ==
    (last.op = "deleteOk" /\ last.cur = last.id)
    => IF chats # <<>>
       THEN currentChatId = chats[1].id
       ELSE currentChatId = NoChat /\ messages = <<>>

C9_Witness ==
    /\ last.op = "deleteOk"
    /\ last.cur = last.id
    /\ chats # <<>>
    /\ currentChatId = chats[1].id
    /\ currentChatId # last.id

\* C10: deleting a session that is not the active one changes neither the
\* active session id nor the ConversationView, at the confirmation and at
\* the completion of the remote delete.
C10_DeleteInactiveFrame ==
    [][ ( \/ last'.op = "confirmDelete"
          \/ last'.op \in {"deleteOk", "deleteFail"} /\ last'.cur # last'.id )
            => currentChatId' = currentChatId /\ messages' = messages ]_vars

C10_Witness ==
    /\ last.op = "deleteOk"
    /\ last.cur # last.id
    /\ last.cur # NoChat
    /\ currentChatId = last.cur
    /\ messages # <<>>

\* C11: after selectChat(id) and the completion of its history fetch with
\* no other step in between, the ConversationView is exactly the fetched
\* sequence in server order (role and first part of every item); nothing of
\* the view shown before the selection remains.
C11_SelectionReplacesView ==
    (last.op = "historyOk" /\ last.direct)
    => /\ currentChatId = last.id
       /\ Len(messages) = Len(last.history)
       /\ \A i \in DOMAIN messages :
              /\ messages[i].role = last.history[i].role
              /\ messages[i].content = Head(last.history[i].parts)

\* a view that had messages was replaced by a fetched history with messages
C11_Witness ==
    /\ last.op = "historyOk"
    /\ last.direct
    /\ last.had
    /\ last.history # <<>>

\* the steps in which a failed response passed the response interceptor
RejectedSteps ==
    {"initFail", "createFail", "sendFail", "historyFail", "deleteFail",
     "profileFail", "orphanFail", "loginFail", "registerFail"}
OpenPages == {"/login", "/register"}

\* the steps in which a login call resolved
LoginSteps == {"loginOk", "orphanLoginOk"}

\* C12: a response with status 401 received while the location is neither
\* the login nor the registration page removes the stored token and moves
\* to the login page; the error is still rejected to the caller.  The move
\* is the page load the interceptor asks for (window.location.href), which
\* the browser then carries out.
C12_UnauthorizedRedirects ==
    /\ ( /\ last.op \in RejectedSteps
         /\ last.status = 401
         /\ last.at \notin OpenPages )
       => /\ ~token
          /\ href = "/login"
          /\ last.rejected
    /\ last.op = "pageLoad" => location = "/login"

\* a send of the chat page was answered 401 while a token was stored
C12_Witness ==
    /\ last.op = "sendFail"
    /\ last.at = "/"
    /\ last.tok
    /\ last.status = 401
    /\ href = "/login"

\* C13: a response with status 401 received on the login or registration
\* page changes neither the location nor the stored token and is rejected
\* to the calling page, which shows it as its own error message; however
\* often it happens, there is no redirect.
C13_NoRedirectOnOpenPages ==
    ( /\ last.op \in RejectedSteps
      /\ last.status = 401
      /\ last.at \in OpenPages )
    => /\ location = last.at
       /\ token = last.tok
       /\ last.rejected
       /\ last.op = "loginFail"
            => login.pc = "idle" /\ login.error # <<>>
       /\ last.op = "registerFail"
            => register.pc = "idle" /\ register.error # <<>>

\* C14: in every reachable state the Session Registry list holds no two
\* entries with the same id, whatever loads, sends, selections, New Chat
\* and deletes were made and in whatever order their responses came.
C14_RegistryIdsDistinct ==
    \A i, j \in DOMAIN chats : i # j => chats[i].id # chats[j].id

\* a lazily provisioned session was put in front of a registry that already
\* held sessions, and the response carried a title
C14_Witness ==
    /\ last.op = "sendOk"
    /\ last.cur = NoChat
    /\ Len(chats) > 1
    /\ chats[1].title \in NewTitles \ {<<>>}

\* C15: if every remote call eventually returns, every send eventually
\* returns to Idle with the loading flag cleared, whether it succeeds, the
\* create-session call fails or the send-message call fails; the loading
\* flag never stays set for ever.
C15_SendTerminates ==
    loading ~> (~loading /\ send.pc = "idle")

\* a send whose create-session call failed after the service had created
\* the session has ended with the flag cleared
C15_Witness ==
    /\ last.op = "createFail"
    /\ last.late
    /\ ~loading
    /\ send.pc = "idle"

\* C16: the New Chat action sets the active session id to none and the
\* ConversationView to empty, issues no remote call and leaves the Session
\* Registry unchanged, locally and at the service: a session is created
\* there only by a later send.
C16_NewChatFrame ==
    [][ last'.op = "newChat"
          => /\ currentChatId' = NoChat
             /\ messages' = <<>>
             /\ chats' = chats
             /\ serverChats' = serverChats
             /\ InFlight' = InFlight
             /\ UNCHANGED << send, fetches, deletes, initPc >> ]_vars

\* New Chat was pressed while a session was active and its view had
\* messages
C16_Witness ==
    /\ last.op = "newChat"
    /\ last.id # NoChat
    /\ last.had
    /\ chats # <<>>

\* C17: selectChat called with a null or absent id is a no-op: the active
\* session id, the ConversationView and the Session Registry are unchanged
\* and no remote call is issued.
C17_SelectNothingIsNoop ==
    [][ (last'.op = "selectChat" /\ last'.id = NoChat)
          => /\ currentChatId' = currentChatId
             /\ messages' = messages
             /\ chats' = chats
             /\ fetches' = fetches
             /\ InFlight' = InFlight
             /\ serverChats' = serverChats ]_vars

\* selectChat(null) was called while a session was active and its view had
\* messages
C17_Witness ==
    /\ last.op = "selectChat"
    /\ last.id = NoChat
    /\ currentChatId # NoChat
    /\ messages # <<>>
    /\ chats # <<>>

\* C18 as stated: when the history fetch of selectChat(id) fails, the
\* ConversationView is left empty and the Session Registry is unchanged.
C18_FailedFetchLeavesViewEmpty ==
    [][ last'.op = "historyFail"
          => messages' = <<>> /\ chats' = chats ]_vars

\* C18, amended: a failed history fetch changes neither the
\* ConversationView nor the Session Registry; the view is empty when the
\* failure is the first step after the selection, and otherwise holds
\* whatever was put into it since.
C18_FailedFetchChangesNothing ==
    [][ last'.op = "historyFail"
          => /\ messages' = messages
             /\ chats' = chats
             /\ currentChatId' = currentChatId
             /\ last'.direct => messages' = <<>> ]_vars

\* the fetch of a selection that replaced a view with messages failed as
\* the next step
C18_Witness ==
    /\ last.op = "historyFail"
    /\ last.direct
    /\ last.had
    /\ currentChatId = last.id

\* C19: on a successful send whose response carries a title, the title of
\* that session in the local Session Registry is the returned title, on the
\* lazy-provisioning path and on the path with an already active session.
C19_TitleUpdatedOnBothPaths ==
    (last.op = "sendOk" /\ last.title # <<>>)
    => \A i \in DOMAIN chats :
           chats[i].id = last.id => chats[i].title = last.title

\* C20: after a successful first send with no active session, the Session
\* Registry is the just-created session at the head, followed by the
\* sessions it held when the send was made, in unchanged order; from an
\* empty registry it holds exactly that one session.
C20_CreatedSessionAtHead ==
    (last.op = "sendOk" /\ last.cur = NoChat)
    => /\ Len(chats) = Len(last.chats) + 1
       /\ chats[1].id = last.newId
       /\ chats[1].title =
              (IF last.title # <<>> THEN last.title ELSE DefaultTitle)
       /\ \A i \in DOMAIN last.chats : chats[i + 1] = last.chats[i]
       /\ last.chats = <<>> => IdsOf(chats) = {last.newId}

\* a first send was made with sessions in the registry and succeeded
C20_Witness ==
    /\ last.op = "sendOk"
    /\ last.cur = NoChat
    /\ Len(last.chats) > 1
    /\ last.newId \notin IdsOf(last.chats)

\* C21: the stored credential changes only in three kinds of step: a
\* successful login sets it, logout removes it, and the handling of a 401
\* received outside the login and registration pages removes it; sends,
\* selections, deletes, New Chat, history loads and failures other than 401
\* leave it as it is.
C21_CredentialFrame ==
    [][ token' # token
          => \/ last'.op \in LoginSteps /\ token'
             \/ last'.op = "logout" /\ ~token'
             \/ /\ last'.op \in RejectedSteps
                /\ last'.status = 401
                /\ last'.at \notin OpenPages
                /\ ~token' ]_vars

\* no credential was stored and a successful login, made after another
\* action that issued a call, has set it
C21_Witness ==
    /\ last.op = "loginOk"
    /\ ~last.tok
    /\ token
    /\ budget = MaxActs

\* C22: in handleSend the user's message is appended to the
\* ConversationView, the input is cleared and the loading flag is set
\* before a remote call is issued: the first call of a send (create-session
\* or send-message) is in flight only from a handleSend step that has done
\* all three.
C22_OptimisticBeforeCall ==
    [][ (send.pc = "idle" /\ send'.pc # "idle")
          => /\ last'.op = "handleSend"
             /\ messages' = Append(messages,
                                    [role |-> "user", content |-> input])
             /\ input' = <<>>
             /\ loading'
             /\ send'.creates + send'.sends = 1 ]_vars

\* handleSend has issued a create-session call
C22_Witness ==
    /\ last.op = "handleSend"
    /\ ~last.blank
    /\ send.pc = "creating"
    /\ loading
    /\ LastMessage.role = "user"

\* C23: handleSend with an input that is empty or only whitespace is a
\* no-op: no message is appended, the loading flag is not set, the input is
\* not cleared and no remote call is issued.
C23_BlankSendIsNoop ==
    [][ ( /\ last'.op = "handleSend"
          /\ \A k \in DOMAIN input : input[k] \in Whitespace )
          => /\ messages' = messages
             /\ loading' = loading
             /\ input' = input
             /\ send' = send
             /\ InFlight' = InFlight
             /\ chats' = chats ]_vars

\* handleSend was called with an input of a carriage return and a no-break
\* space
C23_Witness ==
    /\ last.op = "handleSend"
    /\ last.blank
    /\ input = <<"\r", "\\u00a0">>
    /\ send.pc = "idle"

\* C24: at most one send is in flight at any instant: the loading flag is
\* set exactly while a call of a send is pending, and no handleSend that
\* issues a call starts while it is set, so no second create-session or
\* send-message call is issued.
C24_OneSendInFlight ==
    [][ /\ loading' <=> send'.pc # "idle"
        /\ send'.creates + send'.sends <= 2
        /\ (last'.op = "handleSend" /\ ~last'.blank)
             => ~loading /\ send.pc = "idle" ]_vars

\* the user pressed New Chat while a send-message call was pending: the
\* page responds, and the send is still the only one
C24_Witness ==
    /\ loading
    /\ send.pc = "sending"
    /\ last.op = "newChat"

\* C25: a session whose remote delete has succeeded and which has been
\* removed from the Session Registry never reappears in the registry, also
\* when a lazy-provisioning send that started before the delete completes
\* after it.
C25_DeletedNeverReappears ==
    \A i \in DOMAIN chats : chats[i].id \notin deleted

\* C26: a session added to the Session Registry by the lazy-provisioning
\* path stays in the registry until a delete of its own id succeeds (or the
\* page is left): neither the completion of a delete of another id that
\* was confirmed before the session was added, nor the completion of the
\* initial session-list load, removes it.
C26_ProvisionedStays ==
    [][ \A id \in provisioned \cap IdsOf(chats) :
            \/ id \in IdsOf(chats')
            \/ id \in deleted'
            \/ location' # "/" ]_vars

\* C27: the completion of the initial load (getMe, getChats, then the reset
\* to New Chat) never clears the ConversationView or the active session id
\* of a conversation in which the user has already sent a message or
\* selected a session before the load finished.
C27_InitLoadKeepsConversation ==
    [][ ( /\ last'.op = "getChatsOk"
          /\ messages # <<>> \/ currentChatId # NoChat )
          => /\ messages' = messages
             /\ currentChatId' = currentChatId ]_vars

\* C28: when the remote delete call of confirmDeleteChat fails, the Session
\* Registry list, the active session id and the ConversationView are left
\* as they are, at the service too; all the handler has written is the
\* pending-delete marker, cleared when the delete was confirmed.
C28_FailedDeleteFrame ==
    [][ /\ last'.op = "deleteFail"
          => /\ chats' = chats
             /\ currentChatId' = currentChatId
             /\ messages' = messages
             /\ deleteId' = deleteId
             /\ serverChats' = serverChats
             /\ deleted' = deleted
        /\ last'.op = "confirmDelete"
          => /\ deleteId = last'.id
             /\ deleteId' = NoChat
             /\ chats' = chats
             /\ currentChatId' = currentChatId
             /\ messages' = messages ]_vars

\* the delete of the active session, whose view has messages, has failed
\* after the service had deleted the session
C28_Witness ==
    /\ last.op = "deleteFail"
    /\ last.late
    /\ last.id \notin IdsOf(serverChats)
    /\ last.cur = last.id
    /\ currentChatId = last.id
    /\ last.id \in IdsOf(chats)
    /\ messages # <<>>
    /\ deleteId = NoChat

====
